---- MODULE Spec2Model ----
(***************************************************************************)
(* Quaint Paint sketchpad (src/src/main.ts, final snapshot, lines 730-1360) *)
(* as a state machine: one action per DOM event handler.  Every handler is  *)
(* an operator from a state record to a state record, composed the way the  *)
(* code composes its calls; the actions apply these operators to the        *)
(* variables.  Command objects live in a heap (cmds) indexed by identity.   *)
(***************************************************************************)
EXTENDS Integers, Sequences, FiniteSets, TLC

VARIABLES
  ctx,              \* TRUE iff canvas.getContext("2d") returned a context
  displayList,      \* sequence of command identities
  redoStack,        \* sequence of command identities, top is the last element
  cmds,             \* heap: identity -> fields of the reachable command objects
  nextId,           \* identity the next `new MarkerStroke/StickerStamp` gets
  currentCommand,   \* identity of the in-progress command, Null if none
  isDrawing,
  previewCommand,   \* record: kind "none" (null), "MarkerPreview", "StickerPreview"
  currentLineWidth,
  activeTool,
  activeSticker,
  currentHue,
  lastTool,         \* lastToolX, lastToolY
  stickerConfigs,   \* sequence of emoji texts
  stickerButtons,   \* sequence of [textContent, emoji, bold]
  markerBold,       \* [thin |-> BOOLEAN, thick |-> BOOLEAN]: highlight of the marker buttons
  canvas,           \* what the 2D context shows: items drawn since the last clearRect
  signals           \* custom events the last handler dispatched on the canvas, in order

vars == <<ctx, displayList, redoStack, cmds, nextId, currentCommand, isDrawing,
          previewCommand, currentLineWidth, activeTool, activeSticker, currentHue,
          lastTool, stickerConfigs, stickerButtons, markerBold, canvas, signals>>

----------------------------------------------------------------------------
(* Bounds of the model *)

MaxCmds == 2        \* commands created in one run
MaxPts == 2         \* points of one stroke
MaxStickers == 4    \* sticker configs (three preloaded ones and the custom ones)

(* Program constants *)

THIN_WIDTH == 4
THICK_WIDTH == 10
CanvasWidth == 512
CanvasHeight == 512
StickerSize == 48
PreviewLineWidth == 2

Null == 0

Pt(x, y) == [x |-> x, y |-> y]

\* A text is a sequence of graphemes; " " is white space.  NullText is JS null.
NullText == <<"null">>
PresetStickers == << <<"star">>, <<"heart">>, <<"pizza">> >>

(* Inputs the events are drawn from *)

\* Spec explores the drawing history: two pointer positions, both mouse
\* buttons, the thin marker and the first sticker; the hue slider stays at its
\* initial value and the custom-sticker prompt is cancelled or left blank.
\* The thick marker, the hues and the custom stickers are explored by ToolSpec.
Buttons == {0, 2}
PressLocs == {Pt(1, 1)}
MoveLocs == {Pt(2, 3)}
StickerInputs == {1}
HueInputs == {0}
PromptInputs == {NullText, <<" ">>}

----------------------------------------------------------------------------
(* Pure helpers *)

Truthy(t) == t # NullText /\ t # <<>>

RECURSIVE TrimStart(_)
TrimStart(t) == IF t # <<>> /\ Head(t) = " " THEN TrimStart(Tail(t)) ELSE t

RECURSIVE TrimEnd(_)
TrimEnd(t) ==
  IF t # <<>> /\ t[Len(t)] = " " THEN TrimEnd(SubSeq(t, 1, Len(t) - 1)) ELSE t

Trim(t) == TrimEnd(TrimStart(t))

\* Mutant: the pure hue (full saturation, half lightness).
hueToColorPure(h) == <<"hsl", h, 100, 50>>

\* `hsl(${h}, 80%, 40%)`
hueToColor(h) == <<"hsl", h, 80, 40>>

NoPreview == [kind |-> "none", x |-> 0, y |-> 0]

\* Canvas coordinates are kept in hundredths of a pixel (the single-click dot
\* is a line of 0.01 px).
Px(p) == Pt(100 * p.x, 100 * p.y)

Item(op, src, path, lineWidth, style, text, size, alpha, radius) ==
  [op |-> op, src |-> src, path |-> path, lineWidth |-> lineWidth, style |-> style,
   text |-> text, size |-> size, alpha |-> alpha, radius |-> radius]

MarkerStroke(startX, startY, lineWidth, strokeStyle, lineCap) ==
  [kind |-> "MarkerStroke", points |-> <<Pt(startX, startY)>>, lineWidth |-> lineWidth,
   strokeStyle |-> strokeStyle, lineCap |-> lineCap,
   emoji |-> <<>>, x |-> 0, y |-> 0, size |-> 0]

StickerStamp(emoji, x, y, size) ==
  [kind |-> "StickerStamp", points |-> <<>>, lineWidth |-> 0,
   strokeStyle |-> <<>>, lineCap |-> "",
   emoji |-> emoji, x |-> x, y |-> y, size |-> size]

\* Mutant: the stroke takes the new point at its front (unshift for push).
DragUnshift(c, x, y) ==
  IF c.kind = "MarkerStroke"
  THEN [c EXCEPT !.points = <<Pt(x, y)>> \o @]
  ELSE [c EXCEPT !.x = x, !.y = y]

\* command.drag(x, y)
Drag(c, x, y) ==
  IF c.kind = "MarkerStroke"
  THEN [c EXCEPT !.points = Append(@, Pt(x, y))]
  ELSE [c EXCEPT !.x = x, !.y = y]

\* command.display(ctx) of a committed command: the items it draws
DisplayCmd(id, c) ==
  IF c.kind = "MarkerStroke"
  THEN IF Len(c.points) = 0 THEN <<>>
       ELSE LET first == Px(c.points[1])
                path == IF Len(c.points) = 1
                        THEN <<first, Pt(first.x + 1, first.y + 1)>>
                        ELSE [i \in 1..Len(c.points) |-> Px(c.points[i])]
            IN <<Item("stroke", id, path, c.lineWidth, c.strokeStyle, <<>>, 0, 100, 0)>>
  ELSE <<Item("fillText", id, <<Px(Pt(c.x, c.y))>>, 0, <<>>, c.emoji, c.size, 100, 0)>>

\* previewCommand.display(ctx): the preview reads the tool state through getters
DisplayPreview(s) ==
  LET p == s.previewCommand IN
  IF p.kind = "MarkerPreview"
  THEN <<Item("arc", Null, <<Px(Pt(p.x, p.y))>>, PreviewLineWidth,
              hueToColor(s.currentHue), <<>>, 0, 100, s.currentLineWidth)>>
  ELSE IF ~Truthy(s.activeSticker) THEN <<>>
       ELSE <<Item("fillText", Null, <<Px(Pt(p.x, p.y))>>, 0, <<>>,
                   s.activeSticker, StickerSize, 80, 0)>>

RECURSIVE DisplayAll(_, _)
DisplayAll(list, heap) ==
  IF list = <<>> THEN <<>>
  ELSE DisplayCmd(Head(list), heap[Head(list)]) \o DisplayAll(Tail(list), heap)

Range(f) == {f[i] : i \in DOMAIN f}

\* Objects no variable refers to any more are garbage and leave the heap.
Collect(s) ==
  LET live == Range(s.displayList) \cup Range(s.redoStack)
                \cup (IF s.currentCommand = Null THEN {} ELSE {s.currentCommand})
  IN [s EXCEPT !.cmds = [id \in live |-> s.cmds[id]]]

----------------------------------------------------------------------------
(* The program's functions and handlers, state record to state record *)

St == [ctx |-> ctx, displayList |-> displayList, redoStack |-> redoStack,
       cmds |-> cmds, nextId |-> nextId, currentCommand |-> currentCommand,
       isDrawing |-> isDrawing, previewCommand |-> previewCommand,
       currentLineWidth |-> currentLineWidth, activeTool |-> activeTool,
       activeSticker |-> activeSticker, currentHue |-> currentHue,
       lastTool |-> lastTool, stickerConfigs |-> stickerConfigs,
       stickerButtons |-> stickerButtons, markerBold |-> markerBold,
       canvas |-> canvas, signals |-> <<>>]

\* Mutant: the preview is drawn during a drag too.
redrawCanvasAlwaysPreview(s) ==
  IF ~s.ctx THEN s
  ELSE [s EXCEPT !.canvas =
          DisplayAll(s.displayList, s.cmds)
            \o (IF s.previewCommand.kind # "none" THEN DisplayPreview(s) ELSE <<>>)]

redrawCanvas(s) ==
  IF ~s.ctx THEN s
  ELSE [s EXCEPT !.canvas =
          DisplayAll(s.displayList, s.cmds)
            \o (IF ~s.isDrawing /\ s.previewCommand.kind # "none"
                THEN DisplayPreview(s) ELSE <<>>)]

notifyDrawingChanged(s) ==
  redrawCanvas([s EXCEPT !.signals = Append(@, "drawing-changed")])

updateToolSelection(s) ==
  [s EXCEPT
     !.markerBold =
        [thin |-> s.activeTool = "marker" /\ s.currentLineWidth = THIN_WIDTH,
         thick |-> s.activeTool = "marker" /\ s.currentLineWidth # THIN_WIDTH
                     /\ s.currentLineWidth = THICK_WIDTH],
     !.stickerButtons =
        [i \in 1..Len(s.stickerButtons) |->
           [s.stickerButtons[i] EXCEPT
              !.bold = s.activeTool # "marker" /\ s.activeTool = "sticker"
                         /\ Truthy(s.activeSticker)
                         /\ s.stickerButtons[i].textContent = s.activeSticker]]]

\* Mutant: setting the preview's position redraws, and so does the listener's
\* end.
toolMovedHandlerRedrawsTwice(s, x, y) ==
  IF ~s.ctx THEN s
  ELSE notifyDrawingChanged(notifyDrawingChanged(
    IF s.activeTool = "marker"
    THEN [s EXCEPT !.previewCommand = [kind |-> "MarkerPreview", x |-> x, y |-> y]]
    ELSE IF s.activeTool = "sticker" /\ Truthy(s.activeSticker)
    THEN [s EXCEPT !.previewCommand = [kind |-> "StickerPreview", x |-> x, y |-> y]]
    ELSE [s EXCEPT !.previewCommand = NoPreview]))

toolMovedHandler(s, x, y) ==
  IF ~s.ctx THEN s
  ELSE notifyDrawingChanged(
    IF s.activeTool = "marker"
    THEN [s EXCEPT !.previewCommand = [kind |-> "MarkerPreview", x |-> x, y |-> y]]
    ELSE IF s.activeTool = "sticker" /\ Truthy(s.activeSticker)
    THEN [s EXCEPT !.previewCommand = [kind |-> "StickerPreview", x |-> x, y |-> y]]
    ELSE [s EXCEPT !.previewCommand = NoPreview])

notifyToolMoved(s, x, y) ==
  toolMovedHandler([s EXCEPT !.lastTool = Pt(x, y),
                             !.signals = Append(@, "tool-moved")], x, y)

createStickerButton(s, emoji) ==
  [s EXCEPT !.stickerButtons =
     Append(@, [textContent |-> emoji, emoji |-> emoji, bold |-> FALSE])]

\* Mutant: the click selects the sticker tool but not the sticker.
stickerClickToolOnly(s, i) ==
  notifyToolMoved(
    updateToolSelection([s EXCEPT !.activeTool = "sticker"]),
    s.lastTool.x, s.lastTool.y)

stickerClick(s, i) ==
  notifyToolMoved(
    updateToolSelection([s EXCEPT !.activeTool = "sticker",
                                  !.activeSticker = s.stickerButtons[i].emoji]),
    s.lastTool.x, s.lastTool.y)

thinClick(s) ==
  notifyToolMoved(
    updateToolSelection([s EXCEPT !.activeTool = "marker", !.activeSticker = NullText,
                                  !.currentLineWidth = THIN_WIDTH]),
    s.lastTool.x, s.lastTool.y)

\* Mutant: the Thick click does not fire tool-moved.
thickClickNoRefresh(s) ==
  updateToolSelection([s EXCEPT !.activeTool = "marker", !.activeSticker = NullText,
                                !.currentLineWidth = THICK_WIDTH])

thickClick(s) ==
  notifyToolMoved(
    updateToolSelection([s EXCEPT !.activeTool = "marker", !.activeSticker = NullText,
                                  !.currentLineWidth = THICK_WIDTH]),
    s.lastTool.x, s.lastTool.y)

\* Mutant: the blank check is missing and the text is taken as typed.
customStickerClickNoBlankCheck(s, text) ==
  IF text = NullText THEN s
  ELSE notifyToolMoved(
         updateToolSelection(
           [createStickerButton(
              [s EXCEPT !.stickerConfigs = Append(@, text)], text)
            EXCEPT !.activeTool = "sticker", !.activeSticker = text]),
         s.lastTool.x, s.lastTool.y)

customStickerClick(s, text) ==
  IF text = NullText THEN s
  ELSE LET trimmed == Trim(text) IN
    IF trimmed = <<>> THEN s
    ELSE notifyToolMoved(
           updateToolSelection(
             [createStickerButton(
                [s EXCEPT !.stickerConfigs = Append(@, trimmed)], trimmed)
              EXCEPT !.activeTool = "sticker", !.activeSticker = trimmed]),
           s.lastTool.x, s.lastTool.y)

colorSliderInput(s, value) ==
  [s EXCEPT !.currentHue = IF value = 0 THEN 0 ELSE value]

\* Mutant: the ctx guard is missing.
startDrawingNoCtxGuard(s, button, offsetX, offsetY) ==
  IF button # 0 THEN s
  ELSE LET s1 == [s EXCEPT !.isDrawing = TRUE] IN
    IF s.activeTool = "marker" \/ (s.activeTool = "sticker" /\ Truthy(s.activeSticker))
    THEN LET command ==
               IF s.activeTool = "marker"
               THEN MarkerStroke(offsetX, offsetY, s.currentLineWidth,
                                 hueToColor(s.currentHue), "round")
               ELSE StickerStamp(s.activeSticker, offsetX, offsetY, StickerSize)
             id == s.nextId
         IN notifyDrawingChanged(
              [s1 EXCEPT !.nextId = id + 1,
                         !.cmds = [k \in DOMAIN s.cmds \cup {id} |->
                                     IF k = id THEN command ELSE s.cmds[k]],
                         !.currentCommand = id,
                         !.displayList = Append(@, id),
                         !.redoStack = <<>>])
    ELSE s1

\* Mutant: only a stroke invalidates the redo history, a sticker keeps it.
startDrawingStickerKeepsRedo(s, button, offsetX, offsetY) ==
  IF ~s.ctx THEN s
  ELSE IF button # 0 THEN s
  ELSE LET s1 == [s EXCEPT !.isDrawing = TRUE] IN
    IF s.activeTool = "marker" \/ (s.activeTool = "sticker" /\ Truthy(s.activeSticker))
    THEN LET command ==
               IF s.activeTool = "marker"
               THEN MarkerStroke(offsetX, offsetY, s.currentLineWidth,
                                 hueToColor(s.currentHue), "round")
               ELSE StickerStamp(s.activeSticker, offsetX, offsetY, StickerSize)
             id == s.nextId
         IN notifyDrawingChanged(
              [s1 EXCEPT !.nextId = id + 1,
                         !.cmds = [k \in DOMAIN s.cmds \cup {id} |->
                                     IF k = id THEN command ELSE s.cmds[k]],
                         !.currentCommand = id,
                         !.displayList = Append(@, id),
                         !.redoStack = IF s.activeTool = "marker" THEN <<>> ELSE @])
    ELSE s1

\* Mutant: the redo stack survives a commit.
startDrawingKeepRedo(s, button, offsetX, offsetY) ==
  IF ~s.ctx THEN s
  ELSE IF button # 0 THEN s
  ELSE LET s1 == [s EXCEPT !.isDrawing = TRUE] IN
    IF s.activeTool = "marker" \/ (s.activeTool = "sticker" /\ Truthy(s.activeSticker))
    THEN LET command ==
               IF s.activeTool = "marker"
               THEN MarkerStroke(offsetX, offsetY, s.currentLineWidth,
                                 hueToColor(s.currentHue), "round")
               ELSE StickerStamp(s.activeSticker, offsetX, offsetY, StickerSize)
             id == s.nextId
         IN notifyDrawingChanged(
              [s1 EXCEPT !.nextId = id + 1,
                         !.cmds = [k \in DOMAIN s.cmds \cup {id} |->
                                     IF k = id THEN command ELSE s.cmds[k]],
                         !.currentCommand = id,
                         !.displayList = Append(@, id)])
    ELSE s1

\* function startDrawing(event): a left press creates the command of the
\* active tool, appends it to the display list and empties the redo stack.
startDrawing(s, button, offsetX, offsetY) ==
  IF ~s.ctx THEN s
  ELSE IF button # 0 THEN s
  ELSE LET s1 == [s EXCEPT !.isDrawing = TRUE] IN
    IF s.activeTool = "marker" \/ (s.activeTool = "sticker" /\ Truthy(s.activeSticker))
    THEN LET command ==
               IF s.activeTool = "marker"
               THEN MarkerStroke(offsetX, offsetY, s.currentLineWidth,
                                 hueToColor(s.currentHue), "round")
               ELSE StickerStamp(s.activeSticker, offsetX, offsetY, StickerSize)
             id == s.nextId
         IN notifyDrawingChanged(
              [s1 EXCEPT !.nextId = id + 1,
                         !.cmds = [k \in DOMAIN s.cmds \cup {id} |->
                                     IF k = id THEN command ELSE s.cmds[k]],
                         !.currentCommand = id,
                         !.displayList = Append(@, id),
                         !.redoStack = <<>>])
    ELSE s1

\* function continueDrawing(event); every command class defines drag.
continueDrawing(s, offsetX, offsetY) ==
  IF s.currentCommand = Null THEN s
  ELSE notifyDrawingChanged(
         [s EXCEPT !.cmds[s.currentCommand] = Drag(@, offsetX, offsetY)])

\* Mutant: the release keeps the command in progress.
stopDrawingKeepCommand(s) ==
  notifyDrawingChanged([s EXCEPT !.isDrawing = FALSE])

stopDrawing(s) ==
  notifyDrawingChanged([s EXCEPT !.isDrawing = FALSE, !.currentCommand = Null])

mouseDown(s, button, offsetX, offsetY) ==
  startDrawing([s EXCEPT !.isDrawing = TRUE], button, offsetX, offsetY)

mouseMove(s, offsetX, offsetY) ==
  notifyToolMoved(
    IF s.isDrawing /\ s.currentCommand # Null
    THEN continueDrawing(s, offsetX, offsetY) ELSE s,
    offsetX, offsetY)

mouseUp(s) == stopDrawing(s)

\* Mutant: a leave only removes the preview, the gesture goes on.
mouseLeaveKeepsGesture(s) ==
  notifyDrawingChanged([s EXCEPT !.previewCommand = NoPreview])

\* Mutant: a leave cancels the gesture and takes its command off the list.
mouseLeaveCancels(s) ==
  notifyDrawingChanged(
    [s EXCEPT !.isDrawing = FALSE, !.currentCommand = Null,
              !.previewCommand = NoPreview,
              !.displayList = IF s.currentCommand # Null
                              THEN SubSeq(@, 1, Len(@) - 1) ELSE @])

mouseLeave(s) ==
  notifyDrawingChanged([s EXCEPT !.isDrawing = FALSE, !.currentCommand = Null,
                                 !.previewCommand = NoPreview])

\* Mutant: Clear fires tool-moved like the tool buttons do.
clearClickRefreshesPreview(s) ==
  notifyToolMoved(
    [s EXCEPT !.displayList = <<>>, !.redoStack = <<>>, !.currentCommand = Null],
    s.lastTool.x, s.lastTool.y)

\* Mutant: Clear leaves the command in progress.
clearClickKeepsCommand(s) ==
  notifyDrawingChanged([s EXCEPT !.displayList = <<>>, !.redoStack = <<>>])

\* Mutant: Clear forgets the redo stack.
clearClickKeepRedo(s) ==
  notifyDrawingChanged([s EXCEPT !.displayList = <<>>, !.currentCommand = Null])

clearClick(s) ==
  notifyDrawingChanged([s EXCEPT !.displayList = <<>>, !.redoStack = <<>>,
                                 !.currentCommand = Null])

\* Mutant: Undo copies the command instead of moving it.
undoClickCopy(s) ==
  IF Len(s.displayList) = 0 THEN s
  ELSE notifyDrawingChanged(
         [s EXCEPT !.redoStack = Append(@, s.displayList[Len(s.displayList)]),
                   !.currentCommand = Null])

\* Mutant: Undo puts the command under the redo stack (unshift instead of push).
undoClickUnshift(s) ==
  IF Len(s.displayList) = 0 THEN s
  ELSE notifyDrawingChanged(
         [s EXCEPT !.displayList = SubSeq(@, 1, Len(@) - 1),
                   !.redoStack = <<s.displayList[Len(s.displayList)]>> \o @,
                   !.currentCommand = Null])

\* Mutant: Undo does not dispatch drawing-changed.
undoClickSilent(s) ==
  IF Len(s.displayList) = 0 THEN s
  ELSE [s EXCEPT !.displayList = SubSeq(@, 1, Len(@) - 1),
                 !.redoStack = Append(@, s.displayList[Len(s.displayList)]),
                 !.currentCommand = Null]

\* Mutant: a single level of undo, the redo stack holds the last undone only.
undoClickSingleLevel(s) ==
  IF Len(s.displayList) = 0 THEN s
  ELSE notifyDrawingChanged(
         [s EXCEPT !.displayList = SubSeq(@, 1, Len(@) - 1),
                   !.redoStack = <<s.displayList[Len(s.displayList)]>>,
                   !.currentCommand = Null])

undoClick(s) ==
  IF Len(s.displayList) = 0 THEN s
  ELSE LET popped == s.displayList[Len(s.displayList)] IN
    notifyDrawingChanged(
      [s EXCEPT !.displayList = SubSeq(@, 1, Len(@) - 1),
                !.redoStack = Append(@, popped),
                !.currentCommand = Null])

\* Mutant: Redo takes the oldest undone command (shift instead of pop).
redoClickShift(s) ==
  IF Len(s.redoStack) = 0 THEN s
  ELSE notifyDrawingChanged(
         [s EXCEPT !.redoStack = Tail(@),
                   !.displayList = Append(@, Head(s.redoStack)),
                   !.currentCommand = Null])

\* Mutant: Redo puts the command at the front of the display list.
redoClickFront(s) ==
  IF Len(s.redoStack) = 0 THEN s
  ELSE notifyDrawingChanged(
         [s EXCEPT !.redoStack = SubSeq(@, 1, Len(@) - 1),
                   !.displayList = <<s.redoStack[Len(s.redoStack)]>> \o @,
                   !.currentCommand = Null])

\* Mutant: Redo resets the command in progress before it looks at the stack.
redoClickResetsFirst(s) ==
  IF Len(s.redoStack) = 0 THEN [s EXCEPT !.currentCommand = Null]
  ELSE notifyDrawingChanged(
         [s EXCEPT !.redoStack = SubSeq(@, 1, Len(@) - 1),
                   !.displayList = Append(@, s.redoStack[Len(s.redoStack)]),
                   !.currentCommand = Null])

redoClick(s) ==
  IF Len(s.redoStack) = 0 THEN s
  ELSE LET restored == s.redoStack[Len(s.redoStack)] IN
    notifyDrawingChanged(
      [s EXCEPT !.redoStack = SubSeq(@, 1, Len(@) - 1),
                !.displayList = Append(@, restored),
                !.currentCommand = Null])

\* ctx.scale(2, 2) applied to what a command draws
Scale2(item) ==
  [item EXCEPT !.path = [i \in 1..Len(@) |-> Pt(2 * @[i].x, 2 * @[i].y)],
               !.lineWidth = 2 * @, !.size = 2 * @, !.radius = 2 * @]

ExportWidth == 1024
ExportHeight == 1024

\* Mutant: the export replays what the redraw draws, the preview included.
exportImageWithPreview(s) ==
  LET drawn == DisplayAll(s.displayList, s.cmds)
                 \o (IF ~s.isDrawing /\ s.previewCommand.kind # "none"
                     THEN DisplayPreview(s) ELSE <<>>)
  IN
  [width |-> ExportWidth, height |-> ExportHeight, background |-> "white",
   items |-> [i \in 1..Len(drawn) |-> Scale2(drawn[i])]]

\* The image the export handler hands to the download: its size, background
\* and the items drawn on it (the offscreen canvas gave a 2d context; without
\* one the handler logs an error and returns).
exportImage(s) ==
  LET drawn == DisplayAll(s.displayList, s.cmds) IN
  [width |-> ExportWidth, height |-> ExportHeight, background |-> "white",
   items |-> [i \in 1..Len(drawn) |-> Scale2(drawn[i])]]

\* The export handler reads the display list and writes no program state.
exportClick(s) == s

----------------------------------------------------------------------------
(* State machine *)

\* The state after the module's top-level code has run.
Init ==
  /\ ctx \in BOOLEAN
  /\ displayList = <<>>
  /\ redoStack = <<>>
  /\ cmds = <<>>
  /\ nextId = 1
  /\ currentCommand = Null
  /\ isDrawing = FALSE
  /\ previewCommand = NoPreview
  /\ currentLineWidth = THIN_WIDTH
  /\ activeTool = "marker"
  /\ activeSticker = NullText
  /\ currentHue = 0
  /\ lastTool = Pt(CanvasWidth \div 2, CanvasHeight \div 2)
  /\ stickerConfigs = PresetStickers
  /\ stickerButtons = [i \in 1..Len(PresetStickers) |->
                         [textContent |-> PresetStickers[i],
                          emoji |-> PresetStickers[i], bold |-> FALSE]]
  /\ markerBold = [thin |-> TRUE, thick |-> FALSE]
  /\ canvas = <<>>
  /\ signals = <<>>

\* The variables take the values of the state record a handler returned.
Becomes(r) ==
  \E t \in {Collect(r)} :
  /\ ctx' = t.ctx
  /\ displayList' = t.displayList
  /\ redoStack' = t.redoStack
  /\ cmds' = t.cmds
  /\ nextId' = t.nextId
  /\ currentCommand' = t.currentCommand
  /\ isDrawing' = t.isDrawing
  /\ previewCommand' = t.previewCommand
  /\ currentLineWidth' = t.currentLineWidth
  /\ activeTool' = t.activeTool
  /\ activeSticker' = t.activeSticker
  /\ currentHue' = t.currentHue
  /\ lastTool' = t.lastTool
  /\ stickerConfigs' = t.stickerConfigs
  /\ stickerButtons' = t.stickerButtons
  /\ markerBold' = t.markerBold
  /\ canvas' = t.canvas
  /\ signals' = t.signals

\* The model's bounds: commands created, points of a stroke, sticker configs.
WithinBounds(r) ==
  /\ r.nextId <= MaxCmds + 1
  /\ \A id \in DOMAIN r.cmds : Len(r.cmds[id].points) <= MaxPts
  /\ Len(r.stickerConfigs) <= MaxStickers

\* Each action is one DOM event: the handler runs to its end on the current
\* state, with a fresh signal log, provided its result is within the bounds.
MouseDown(b, p) ==
  \E r \in {mouseDown(St, b, p.x, p.y)} :
    /\ WithinBounds(r)
    /\ Becomes(r)

MouseMove(p) ==
  \E r \in {mouseMove(St, p.x, p.y)} :
    /\ WithinBounds(r)
    /\ Becomes(r)

MouseUp ==
  \E r \in {mouseUp(St)} :
    /\ WithinBounds(r)
    /\ Becomes(r)

MouseLeave ==
  \E r \in {mouseLeave(St)} :
    /\ WithinBounds(r)
    /\ Becomes(r)

ThinClick ==
  \E r \in {thinClick(St)} :
    /\ WithinBounds(r)
    /\ Becomes(r)

\* Only a button that exists can be clicked.
StickerClick(i) ==
  /\ i \in 1..Len(stickerButtons)
  /\ \E r \in {stickerClick(St, i)} :
       /\ WithinBounds(r)
       /\ Becomes(r)

CustomStickerClick(text) ==
  \E r \in {customStickerClick(St, text)} :
    /\ WithinBounds(r)
    /\ Becomes(r)

ColorSliderInput(h) ==
  \E r \in {colorSliderInput(St, h)} :
    /\ WithinBounds(r)
    /\ Becomes(r)

ClearClick ==
  \E r \in {clearClick(St)} :
    /\ WithinBounds(r)
    /\ Becomes(r)

UndoClick ==
  \E r \in {undoClick(St)} :
    /\ WithinBounds(r)
    /\ Becomes(r)

RedoClick ==
  \E r \in {redoClick(St)} :
    /\ WithinBounds(r)
    /\ Becomes(r)

ExportClick ==
  \E r \in {exportClick(St)} :
    /\ WithinBounds(r)
    /\ Becomes(r)

Next ==
  \/ RedoClick
  \/ UndoClick
  \/ ClearClick
  \/ ExportClick
  \/ \E b \in Buttons, p \in PressLocs : MouseDown(b, p)
  \/ \E p \in MoveLocs : MouseMove(p)
  \/ MouseUp
  \/ MouseLeave
  \/ ThinClick
  \/ \E i \in StickerInputs : StickerClick(i)
  \/ \E text \in PromptInputs : CustomStickerClick(text)
  \/ \E h \in HueInputs : ColorSliderInput(h)

Spec == Init /\ [][Next]_vars

----------------------------------------------------------------------------
(* The tool palette: a second specification of the same handlers *)

\* ToolSpec explores the tool state instead of the history: few commands,
\* both ends of the hue slider, a custom sticker typed with blanks around it,
\* and the preset and the custom sticker buttons.  DragSpec explores the
\* geometry of a gesture: longer strokes over two move positions, drawn with
\* the thin marker or the first sticker.
MaxToolCmds == 1    \* commands created in one run
MaxToolPts == 3     \* points of one stroke

HueMin == 0
HueMax == 360

ToolButtons == {0}
DragMoveLocs == {Pt(2, 3), Pt(5, 4)}
ToolStickerInputs == {1, 4}
ToolHueInputs == {HueMin, HueMax}
ToolPromptInputs == {NullText, <<" ">>, <<" ", "cat", " ">>}

WithinToolBounds(r) ==
  /\ r.nextId <= MaxToolCmds + 1
  /\ \A id \in DOMAIN r.cmds : Len(r.cmds[id].points) <= MaxToolPts
  /\ Len(r.stickerConfigs) <= MaxStickers

ToolMouseDown(b, p) ==
  \E r \in {mouseDown(St, b, p.x, p.y)} :
    /\ WithinToolBounds(r)
    /\ Becomes(r)

ToolMouseMove(p) ==
  \E r \in {mouseMove(St, p.x, p.y)} :
    /\ WithinToolBounds(r)
    /\ Becomes(r)

ToolMouseUp ==
  \E r \in {mouseUp(St)} :
    /\ WithinToolBounds(r)
    /\ Becomes(r)

ToolMouseLeave ==
  \E r \in {mouseLeave(St)} :
    /\ WithinToolBounds(r)
    /\ Becomes(r)

ToolThinClick ==
  \E r \in {thinClick(St)} :
    /\ WithinToolBounds(r)
    /\ Becomes(r)

ToolThickClick ==
  \E r \in {thickClick(St)} :
    /\ WithinToolBounds(r)
    /\ Becomes(r)

ToolStickerClick(i) ==
  /\ i \in 1..Len(stickerButtons)
  /\ \E r \in {stickerClick(St, i)} :
       /\ WithinToolBounds(r)
       /\ Becomes(r)

ToolCustomStickerClick(text) ==
  \E r \in {customStickerClick(St, text)} :
    /\ WithinToolBounds(r)
    /\ Becomes(r)

ToolColorSliderInput(h) ==
  \E r \in {colorSliderInput(St, h)} :
    /\ WithinToolBounds(r)
    /\ Becomes(r)

ToolNext ==
  \/ \E text \in ToolPromptInputs : ToolCustomStickerClick(text)
  \/ \E h \in ToolHueInputs : ToolColorSliderInput(h)
  \/ \E b \in ToolButtons, p \in PressLocs : ToolMouseDown(b, p)
  \/ \E p \in MoveLocs : ToolMouseMove(p)
  \/ ToolMouseUp
  \/ ToolMouseLeave
  \/ ToolThinClick
  \/ ToolThickClick
  \/ \E i \in ToolStickerInputs : ToolStickerClick(i)

ToolSpec == Init /\ [][ToolNext]_vars

DragNext ==
  \/ \E b \in ToolButtons, p \in PressLocs : ToolMouseDown(b, p)
  \/ \E p \in DragMoveLocs : ToolMouseMove(p)
  \/ ToolMouseUp
  \/ ToolMouseLeave
  \/ ToolThinClick
  \/ \E i \in StickerInputs : ToolStickerClick(i)

DragSpec == Init /\ [][DragNext]_vars

----------------------------------------------------------------------------
(* Properties *)

Last(q) == q[Len(q)]
Front(q) == SubSeq(q, 1, Len(q) - 1)

\* Two state records agree on the program's state (the signal log aside).
SameState(a, b) == [a EXCEPT !.signals = <<>>] = [b EXCEPT !.signals = <<>>]

\* The commands of a display list, in order, with their geometry and attributes.
Content(s) == [i \in 1..Len(s.displayList) |->
                 <<s.displayList[i], s.cmds[s.displayList[i]]>>]

\* C1 as stated: in every reachable state, Undo followed at once by Redo leaves
\* the display list as it was: same commands, same order, same geometry.
C1_UndoRedoEverywhere == Content(redoClick(undoClick(St))) = Content(St)

\* C1 as amended: the same, in every reachable state whose display list is not
\* empty or whose redo stack is empty (so that the Redo takes back what the
\* Undo removed, or both do nothing).
C1_UndoRedoRestores ==
  (displayList # <<>> \/ redoStack = <<>>)
    => Content(redoClick(undoClick(St))) = Content(St)

\* A state where Undo removes a command while older undone commands wait.
C1_Witness ==
  /\ displayList # <<>>
  /\ redoStack # <<>>
  /\ Content(undoClick(St)) # Content(St)

\* C2: a step that commits a new command (the press creates a stroke or a
\* sticker, which takes a fresh identity) ends with an empty redo stack; the
\* commands undone before are gone and a Redo right after changes nothing.
C2_CommitClearsRedo ==
  [][nextId' # nextId
       => (/\ Len(displayList') = Len(displayList) + 1
           /\ redoStack' = <<>>
           /\ Range(redoStack) \cap DOMAIN cmds' = {}
           /\ SameState(redoClick(St'), St'))]_vars

\* A state with undone commands in which a left press commits a new one.
C2_Witness ==
  /\ ctx
  /\ redoStack # <<>>
  /\ \E p \in PressLocs :
       LET r == mouseDown(St, 0, p.x, p.y) IN
       r.nextId = nextId + 1 /\ r.nextId <= MaxCmds + 1

\* C3: Clear, from any reachable state, leaves the display list and the redo
\* stack empty and no command in progress; Undo or Redo right after change
\* nothing.
C3_ClearEmptiesBoth ==
  LET r == clearClick(St) IN
  /\ r.displayList = <<>>
  /\ r.redoStack = <<>>
  /\ r.currentCommand = Null
  /\ SameState(undoClick(r), r)
  /\ SameState(redoClick(r), r)

\* Clear has acted in the middle of a drag: commands were created, none is
\* left in either list and the button is still down.
C3_Witness ==
  /\ ctx
  /\ nextId > 1
  /\ displayList = <<>>
  /\ redoStack = <<>>
  /\ currentCommand = Null
  /\ isDrawing

\* C4: the display list and the redo stack are disjoint and hold no command
\* twice.
C4_DisjointNoDuplicates ==
  LET all == displayList \o redoStack IN
  Cardinality(Range(all)) = Len(all)

\* Both lists hold a command: Undo has moved one.
C4_Witness == Len(displayList) >= 1 /\ Len(redoStack) >= 1

\* C5: Undo on a non-empty display list removes its last command and pushes
\* it on the redo stack; Redo on a non-empty redo stack removes its top and
\* appends it to the display list; the other commands keep place and order.
C5_UndoRedoMoveOne ==
  [][/\ (UndoClick /\ displayList # <<>>)
          => (/\ displayList' = Front(displayList)
              /\ redoStack' = Append(redoStack, Last(displayList)))
     /\ (RedoClick /\ redoStack # <<>>)
          => (/\ redoStack' = Front(redoStack)
              /\ displayList' = Append(displayList, Last(redoStack)))]_vars

\* Undo has pushed a second command on the redo stack.
C5_Witness == Len(redoStack) >= 2

\* The display list grew by one command at its end.
Appended == /\ Len(displayList') = Len(displayList) + 1
            /\ Front(displayList') = displayList

\* C6 as stated: every step leaves the display list as it is, appends one
\* command (a new one, or the top of the redo stack), or is an Undo removing
\* the last one.
C6_AppendOnlyButUndo ==
  [][\/ displayList' = displayList
     \/ Appended /\ (Last(displayList') = nextId
                       \/ (redoStack # <<>> /\ Last(displayList') = Last(redoStack)))
     \/ UndoClick /\ displayList' = Front(displayList)]_vars

\* C6 as amended: ... or is a Clear, which removes every command.
C6_AppendOnlyButUndoClear ==
  [][\/ displayList' = displayList
     \/ Appended /\ (Last(displayList') = nextId
                       \/ (redoStack # <<>> /\ Last(displayList') = Last(redoStack)))
     \/ UndoClick /\ displayList' = Front(displayList)
     \/ ClearClick /\ displayList' = <<>>]_vars

\* Two commands were created and Clear has removed them.
C6_Witness == nextId > 2 /\ displayList = <<>> /\ redoStack = <<>>

\* r is what a redraw makes of s: the committed commands once each in list
\* order, then the preview iff no drag is on and a preview exists; nothing of
\* the redo stack; no other state changed.
RedrawOf(s, r) ==
  LET n == Len(s.displayList)
      showPreview == ~s.isDrawing /\ s.previewCommand.kind # "none"
  IN /\ [r EXCEPT !.canvas = s.canvas] = s
     /\ Len(r.canvas) = n + (IF showPreview THEN 1 ELSE 0)
     /\ \A i \in 1..n :
          /\ r.canvas[i].src = s.displayList[i]
          /\ <<r.canvas[i]>> = DisplayCmd(s.displayList[i], s.cmds[s.displayList[i]])
     /\ showPreview
          => (/\ r.canvas[n + 1].src = Null
              /\ r.canvas[n + 1].op = (IF s.previewCommand.kind = "MarkerPreview"
                                       THEN "arc" ELSE "fillText")
              /\ r.canvas[n + 1].path
                   = <<Px(Pt(s.previewCommand.x, s.previewCommand.y))>>)
     /\ \A i \in 1..Len(r.canvas) : r.canvas[i].src \notin Range(s.redoStack)

\* C7: a redraw in any reachable state produces exactly the display list in
\* order and then the preview iff isDrawing is false and a preview exists, and
\* changes nothing but the canvas; and whenever the last thing a handler did was
\* to dispatch drawing-changed, the canvas shows exactly that for the state the
\* handler left.
C7_RedrawExact ==
  /\ RedrawOf(St, redrawCanvas(St))
  /\ (signals # <<>> /\ Last(signals) = "drawing-changed")
       => RedrawOf([St EXCEPT !.canvas = <<>>], St)

\* A redraw has drawn two commands and no preview during a drag, with a preview
\* set and an undone command left out.
C7_Witness ==
  /\ isDrawing
  /\ previewCommand.kind # "none"
  /\ redoStack # <<>>
  /\ displayList # <<>>
  /\ Len(canvas) = Len(displayList)
  /\ Last(signals) = "drawing-changed"

\* The committed items of the canvas (the preview is drawn with no command).
Committed(cv) == SelectSeq(cv, LAMBDA it : it.src # Null)

\* The geometry of the commands of the display list.
Geometry(s) == [i \in 1..Len(s.displayList) |->
                  <<s.cmds[s.displayList[i]].points,
                    s.cmds[s.displayList[i]].x, s.cmds[s.displayList[i]].y>>]

\* C8: at the end of every handler the committed content on the canvas is the
\* current display list in order, and every handler that changed the display
\* list or the geometry of a command in it dispatched drawing-changed.
C8_CanvasFollowsList ==
  /\ [](Committed(canvas) = DisplayAll(displayList, cmds))
  /\ [][(displayList' # displayList \/ Geometry(St') # Geometry(St))
          => (signals' # <<>> /\ Last(signals') = "drawing-changed")]_vars

\* The canvas shows a dragged stroke of two points after an Undo.
C8_Witness ==
  /\ redoStack # <<>>
  /\ Len(displayList) = 1
  /\ Len(Committed(canvas)) = 1
  /\ Len(Committed(canvas)[1].path) = 2
  /\ cmds[displayList[1]].kind = "MarkerStroke"
  /\ Len(cmds[displayList[1]].points) = 2

\* C9: without a 2D context the display list and the redo stack stay empty,
\* no command is in progress and no preview exists.
C9_NoContextNoDrawing ==
  ~ctx => (/\ displayList = <<>>
           /\ redoStack = <<>>
           /\ currentCommand = Null
           /\ previewCommand = NoPreview
           /\ cmds = <<>>
           /\ canvas = <<>>)

\* Without a context, a press and a sticker selection have been handled (and a
\* tool-moved signal was dispatched).
C9_Witness ==
  /\ ~ctx
  /\ isDrawing
  /\ activeTool = "sticker"
  /\ signals = <<"tool-moved">>

\* A step changes no command but the one in progress.
OnlyInProgressChanges ==
  \A c \in DOMAIN cmds \cap DOMAIN cmds' : c # currentCommand => cmds'[c] = cmds[c]

\* A command is in progress only from its creation on: none becomes so later.
NoResume ==
  (currentCommand' # Null /\ currentCommand' # currentCommand)
    => currentCommand' \notin DOMAIN cmds

\* After the step no command that existed before it is in progress, and a
\* pointer move changes none of them.
GestureEnded ==
  /\ currentCommand' \notin DOMAIN cmds
  /\ \A p \in MoveLocs, c \in DOMAIN cmds \cap DOMAIN cmds' :
       mouseMove(St', p.x, p.y).cmds[c] = cmds[c]

\* C10 as stated: release, leave, Undo, Redo, Clear and a press that commits a
\* new command end the gesture of every command created before; from then on
\* no event changes such a command.
C10_ImmutableOnceEnded ==
  [][/\ OnlyInProgressChanges
     /\ NoResume
     /\ ((MouseUp \/ MouseLeave \/ UndoClick \/ RedoClick \/ ClearClick
            \/ nextId' # nextId) => GestureEnded)]_vars

\* C10 as amended: the same without Redo in the list (a Redo during a drag
\* finds the redo stack empty and returns before it resets currentCommand).
C10_ImmutableOnceEndedNoRedo ==
  [][/\ OnlyInProgressChanges
     /\ NoResume
     /\ ((MouseUp \/ MouseLeave \/ UndoClick \/ ClearClick
            \/ nextId' # nextId) => GestureEnded)]_vars

\* A second command has been dragged while the first one, whose gesture ended
\* at the second press, kept its single point or its place.
C10_Witness ==
  /\ Len(displayList) = 2
  /\ currentCommand = displayList[2]
  /\ LET a == cmds[displayList[1]]
         b == cmds[displayList[2]]
     IN /\ (a.kind = "MarkerStroke" => Len(a.points) = 1)
        /\ (a.kind = "StickerStamp" => Pt(a.x, a.y) \in PressLocs)
        /\ (b.kind = "MarkerStroke" => Len(b.points) = 2)
        /\ (b.kind = "StickerStamp" => Pt(b.x, b.y) \in MoveLocs)

\* The items a command has on the canvas.
ItemsOf(cv, id) == SelectSeq(cv, LAMBDA it : it.src = id)

\* C11: a press starts a stroke with the press position as its only point, and
\* each move of the drag appends the pointer position to the stroke, so that
\* the points are the press position followed by the move positions in the
\* order of the events; a sticker in progress takes the position of each move
\* and is drawn once, there; no other handler changes the command in progress.
C11_DragAppendsOrMoves ==
  [][/\ \A b \in ToolButtons, p \in PressLocs :
          (ToolMouseDown(b, p) /\ nextId' # nextId)
            => LET c == cmds'[currentCommand'] IN
               /\ (c.kind = "MarkerStroke" => c.points = <<p>>)
               /\ (c.kind = "StickerStamp" => Pt(c.x, c.y) = p)
     /\ \A p \in DragMoveLocs :
          (ToolMouseMove(p) /\ isDrawing /\ currentCommand # Null)
            => (/\ currentCommand' = currentCommand
                /\ LET old == cmds[currentCommand]
                       new == cmds'[currentCommand]
                   IN /\ new.kind = old.kind
                      /\ (old.kind = "MarkerStroke"
                            => new.points = Append(old.points, p))
                      /\ (old.kind = "StickerStamp"
                            => (/\ Pt(new.x, new.y) = p
                                /\ new.points = <<>>
                                /\ Len(ItemsOf(canvas', currentCommand)) = 1
                                /\ ItemsOf(canvas', currentCommand)[1].path
                                     = <<Px(p)>>)))
     /\ ((currentCommand # Null /\ currentCommand' = currentCommand
            /\ ~(\E p \in DragMoveLocs : ToolMouseMove(p)))
           => cmds'[currentCommand] = cmds[currentCommand])]_vars

\* A stroke in progress that took two different move positions after the
\* press, the later one last.
C11_Witness ==
  /\ isDrawing
  /\ currentCommand # Null
  /\ cmds[currentCommand].kind = "MarkerStroke"
  /\ cmds[currentCommand].points = <<Pt(1, 1), Pt(5, 4), Pt(2, 3)>>

\* What a command looks like on a surface scaled by k: a stroke is the path
\* through its points (a single point gets the 0.01 px tail), a sticker is its
\* emoji at its position.
ScaledLook(c, k) ==
  IF c.kind = "MarkerStroke"
  THEN [op |-> "stroke",
        path |-> IF Len(c.points) = 1
                 THEN <<Pt(k * 100 * c.points[1].x, k * 100 * c.points[1].y),
                        Pt(k * (100 * c.points[1].x + 1),
                           k * (100 * c.points[1].y + 1))>>
                 ELSE [i \in 1..Len(c.points) |->
                         Pt(k * 100 * c.points[i].x, k * 100 * c.points[i].y)],
        lineWidth |-> k * c.lineWidth, style |-> c.strokeStyle,
        text |-> <<>>, size |-> 0]
  ELSE [op |-> "fillText", path |-> <<Pt(k * 100 * c.x, k * 100 * c.y)>>,
        lineWidth |-> 0, style |-> <<>>, text |-> c.emoji, size |-> k * c.size]

LookOf(item) ==
  [op |-> item.op, path |-> item.path, lineWidth |-> item.lineWidth,
   style |-> item.style, text |-> item.text, size |-> item.size]

\* C12: the exported image is 1024 x 1024 on white and holds one item per
\* command of the display list, in list order, each at twice its size and
\* place; it shows neither the preview nor a command of the redo stack; and
\* the export handler leaves the whole program state as it was.
C12_ExportReplaysDisplayList ==
  LET img == exportImage(St) IN
  /\ img.width = 1024
  /\ img.height = 1024
  /\ img.background = "white"
  /\ Len(img.items) = Len(displayList)
  /\ \A i \in 1..Len(displayList) :
       /\ img.items[i].src = displayList[i]
       /\ LookOf(img.items[i]) = ScaledLook(cmds[displayList[i]], 2)
       /\ img.items[i].alpha = 100
  /\ \A i \in 1..Len(img.items) :
       img.items[i].src # Null /\ img.items[i].src \notin Range(redoStack)
  /\ SameState(exportClick(St), St)
  /\ exportClick(St).signals = <<>>

\* The canvas shows a dragged stroke and the preview, and an undone command
\* waits in the redo stack: the export has something to draw and something to
\* leave out.
C12_Witness ==
  /\ displayList # <<>>
  /\ redoStack # <<>>
  /\ ~isDrawing
  /\ previewCommand.kind # "none"
  /\ Len(canvas) = Len(displayList) + 1
  /\ \E i \in 1..Len(displayList) : Len(cmds[displayList[i]].points) = 2

\* The commands of the history: those drawn and those undone.
History(s) == Range(s.displayList) \cup Range(s.redoStack)

\* C13: a step brings nothing into the display list or the redo stack but the
\* command it creates; a step that creates one leaves none of the undone
\* commands in either list; and a created command is never one that was there
\* before (identities only grow).  Hence a command undone and then overtaken
\* by a commit is in neither list in any later state.
C13_NoBranching ==
  [][/\ History(St') \subseteq History(St) \cup {nextId}
     /\ nextId' >= nextId
     /\ \A id \in History(St') : id < nextId'
     /\ (nextId' # nextId
           => (/\ nextId \in Range(displayList')
               /\ Range(redoStack) \cap History(St') = {}))]_vars

\* Undone commands wait in the redo stack and a left press commits a new
\* command; neither Undo nor Redo after it brings an undone one back.
C13_Witness ==
  /\ ctx
  /\ redoStack # <<>>
  /\ \E p \in PressLocs :
       \E r \in {Collect(mouseDown(St, 0, p.x, p.y))} :
         /\ r.nextId = nextId + 1
         /\ r.nextId <= MaxCmds + 1
         /\ Range(redoStack) \cap History(redoClick(r)) = {}
         /\ Range(redoStack) \cap History(redoClick(undoClick(r))) = {}

\* The marker preview circles on the canvas.
PreviewCircles(cv) == SelectSeq(cv, LAMBDA it : it.op = "arc")

\* C14 as stated: at the end of every handler, a marker preview circle on the
\* canvas has the selected line width as its radius and the color of the
\* current hue.
C14_PreviewShowsWidthAndHue ==
  \A i \in 1..Len(PreviewCircles(canvas)) :
    /\ PreviewCircles(canvas)[i].radius = currentLineWidth
    /\ PreviewCircles(canvas)[i].style = hueToColor(currentHue)

\* What a command keeps for life: everything but its geometry.
Attributes(c) ==
  [kind |-> c.kind, lineWidth |-> c.lineWidth, strokeStyle |-> c.strokeStyle,
   lineCap |-> c.lineCap, emoji |-> c.emoji, size |-> c.size]

\* C15: the command a press creates has the attributes of the tool state the
\* press found: with the marker, the selected line width (4 or 10) and the
\* color hsl(h, 80%, 40%) of the current hue h, which lies in 0..360; with a
\* sticker, the active emoji.  No later step, a change of tool, width or hue
\* during the drag included, alters the attributes of an existing command.
C15_AttributesFromPress ==
  [][/\ (nextId' # nextId
           => LET c == cmds'[nextId] IN
              /\ currentHue \in 0..360
              /\ (activeTool = "marker"
                    => (/\ c.kind = "MarkerStroke"
                        /\ c.lineWidth = currentLineWidth
                        /\ c.lineWidth \in {4, 10}
                        /\ c.strokeStyle = <<"hsl", currentHue, 80, 40>>))
              /\ (activeTool = "sticker"
                    => (/\ c.kind = "StickerStamp"
                        /\ c.emoji = activeSticker)))
     /\ \A id \in DOMAIN cmds \cap DOMAIN cmds' :
          Attributes(cmds'[id]) = Attributes(cmds[id])]_vars

\* A thick stroke of hue 360 is being dragged while the tool state has moved
\* on to a sticker and hue 0.
C15_Witness ==
  /\ isDrawing
  /\ currentCommand # Null
  /\ cmds[currentCommand].lineWidth = THICK_WIDTH
  /\ cmds[currentCommand].strokeStyle = <<"hsl", 360, 80, 40>>
  /\ Len(cmds[currentCommand].points) >= 2
  /\ activeTool = "sticker"
  /\ currentHue = 0

\* What the user may leave in the prompt: a cancel, nothing, blanks, and texts
\* with blanks before, after or inside, one of them a preset sticker's.
PromptTexts ==
  {NullText, <<>>, <<" ">>, <<" ", " ">>, <<"cat">>, <<" ", "cat", " ">>,
   <<"star">>, <<"a", " ", "b">>, <<" ", "a", " ", "b">>}

Blank(text) == \A i \in 1..Len(text) : text[i] = " "

Emojis(buttons) == [i \in 1..Len(buttons) |-> buttons[i].emoji]

\* C16: in every reachable state there are as many sticker buttons as sticker
\* configs, button i carrying config i; a prompt that is cancelled or left
\* blank changes nothing at all; any other text adds one config and one
\* button at the end of their lists, both with the text as typed without the
\* blanks around it, makes that sticker the active tool and leaves the display
\* list, the redo stack and the commands alone.
C16_PromptAddsOneOrNothing ==
  /\ Len(stickerButtons) = Len(stickerConfigs)
  /\ Emojis(stickerButtons) = stickerConfigs
  /\ \A text \in PromptTexts :
       \E r \in {customStickerClick(St, text)} :
         IF text = NullText \/ Blank(text)
         THEN r = St
         ELSE /\ Len(r.stickerConfigs) = Len(stickerConfigs) + 1
              /\ Front(r.stickerConfigs) = stickerConfigs
              /\ Len(r.stickerButtons) = Len(stickerButtons) + 1
              /\ Emojis(Front(r.stickerButtons)) = Emojis(stickerButtons)
              /\ Last(r.stickerConfigs) = Last(r.stickerButtons).emoji
              /\ Last(r.stickerConfigs) # <<>>
              /\ Head(Last(r.stickerConfigs)) # " "
              /\ Last(Last(r.stickerConfigs)) # " "
              /\ \E i, j \in 1..Len(text) :
                   Last(r.stickerConfigs) = SubSeq(text, i, j)
              /\ r.activeTool = "sticker"
              /\ r.activeSticker = Last(r.stickerConfigs)
              /\ Last(r.stickerButtons).bold
              /\ r.displayList = displayList
              /\ r.redoStack = redoStack
              /\ r.cmds = cmds
              /\ r.currentCommand = currentCommand
              /\ r.isDrawing = isDrawing

\* A custom sticker typed with blanks around it has been added and is the
\* active tool.
C16_Witness ==
  /\ Len(stickerConfigs) = Len(PresetStickers) + 1
  /\ Last(stickerConfigs) = <<"cat">>
  /\ activeTool = "sticker"
  /\ activeSticker = <<"cat">>
  /\ Last(stickerButtons).bold

Reverse(q) == [i \in 1..Len(q) |-> q[Len(q) + 1 - i]]

\* The history sequence: the display list, then the redo stack from its top
\* down, each command with its geometry and attributes.
Timeline(s) ==
  [i \in 1..Len(s.displayList) + Len(s.redoStack) |->
     LET id == (s.displayList \o Reverse(s.redoStack))[i] IN <<id, s.cmds[id]>>]

RECURSIVE Undos(_, _)
Undos(s, k) == IF k = 0 THEN s ELSE Undos(undoClick(s), k - 1)

RECURSIVE Redos(_, _)
Redos(s, k) == IF k = 0 THEN s ELSE Redos(redoClick(s), k - 1)

\* C17: in every reachable state an Undo and a Redo each leave the history
\* sequence as it is, and for every k up to the length of the display list, k
\* Undos followed by k Redos give back the display list and the redo stack,
\* with every command as it was.
C17_UndoRedoKeepTimeline ==
  /\ Timeline(undoClick(St)) = Timeline(St)
  /\ Timeline(redoClick(St)) = Timeline(St)
  /\ \A k \in 0..Len(displayList) :
       \E r \in {Redos(Undos(St, k), k)} :
         /\ r.displayList = displayList
         /\ r.redoStack = redoStack
         /\ r.cmds = cmds

\* Two commands are drawn; two Undos empty the display list and two Redos
\* bring it back.
C17_Witness ==
  /\ Len(displayList) = 2
  /\ Undos(St, 2).displayList = <<>>
  /\ Undos(St, 2).redoStack = Reverse(displayList)
  /\ Redos(Undos(St, 2), 2).displayList = displayList

\* C18: in every reachable state with an empty display list Undo returns the
\* state it found, and in every reachable state with an empty redo stack so
\* does Redo: lists, command in progress, isDrawing, preview, canvas and tool
\* state are as before and no event is dispatched.
C18_EmptyUndoRedoNoOp ==
  /\ (displayList = <<>> => undoClick(St) = St /\ undoClick(St).signals = <<>>)
  /\ (redoStack = <<>> => redoClick(St) = St /\ redoClick(St).signals = <<>>)

\* A drag is going on with the preview still set: Redo finds its stack empty.
\* (Undo finds the display list empty in the initial state.)
C18_Witness ==
  /\ redoStack = <<>>
  /\ isDrawing
  /\ currentCommand # Null
  /\ previewCommand.kind # "none"
  /\ redoClick(St).currentCommand = currentCommand

\* C19: in every reachable state the command in progress, if there is one, is
\* the last element of the display list and is not in the redo stack; and a
\* pointer move changes no command but that one: none in the redo stack, none
\* below the top of the display list.
C19_InProgressIsLast ==
  /\ (currentCommand # Null
        => (/\ displayList # <<>>
            /\ currentCommand = Last(displayList)
            /\ currentCommand \notin Range(redoStack)))
  /\ \A p \in MoveLocs :
       \E r \in {mouseMove(St, p.x, p.y)} :
         \A id \in DOMAIN cmds :
           r.cmds[id] # cmds[id]
             => (id = currentCommand /\ id = Last(displayList))

\* Undo was clicked in the middle of a drag: the button is down, the dragged
\* command waits in the redo stack, and a move leaves every command alone.
C19_Witness ==
  /\ isDrawing
  /\ currentCommand = Null
  /\ redoStack # <<>>
  /\ \E p \in MoveLocs : mouseMove(St, p.x, p.y).cmds = cmds

\* C20 as stated: at the end of every handler isDrawing is true exactly when
\* there is a command in progress.
C20_DrawingIffCommand == isDrawing <=> currentCommand # Null

\* C21: in every reachable state the active tool is the marker or a sticker,
\* and it is a sticker exactly when an active sticker with a non-empty text is
\* set.  So, with a 2d context, a left press anywhere appends exactly one new
\* command to the display list, a stroke with the marker and a sticker with a
\* sticker, and makes it the command in progress; a press with another button
\* leaves the display list, the redo stack, the command in progress and every
\* command as they are.
C21_LeftPressAppendsOne ==
  /\ activeTool \in {"marker", "sticker"}
  /\ (activeTool = "sticker" <=> Truthy(activeSticker))
  /\ \A p \in PressLocs :
       /\ ctx =>
            \E r \in {mouseDown(St, 0, p.x, p.y)} :
              /\ r.displayList = Append(displayList, nextId)
              /\ nextId \notin DOMAIN cmds
              /\ r.currentCommand = nextId
              /\ r.cmds[nextId].kind =
                   (IF activeTool = "marker" THEN "MarkerStroke" ELSE "StickerStamp")
              /\ \A id \in DOMAIN cmds : r.cmds[id] = cmds[id]
       /\ \A b \in {1, 2} :
            \E r \in {mouseDown(St, b, p.x, p.y)} :
              /\ r.displayList = displayList
              /\ r.redoStack = redoStack
              /\ r.currentCommand = currentCommand
              /\ r.cmds = cmds

\* The custom sticker is the active tool and a left press has put one on the
\* canvas.
C21_Witness ==
  /\ ctx
  /\ activeTool = "sticker"
  /\ activeSticker = <<"cat">>
  /\ currentCommand # Null
  /\ displayList = <<currentCommand>>
  /\ cmds[currentCommand].kind = "StickerStamp"
  /\ cmds[currentCommand].emoji = <<"cat">>

\* A handler's result has the display list, the redo stack and every command
\* in them as the current state has them.
DrawingUntouched(r) ==
  /\ r.displayList = displayList
  /\ r.redoStack = redoStack
  /\ \A id \in History(St) : r.cmds[id] = cmds[id]

\* C22: in every reachable state a release, a leave, a click on Thin, Thick or
\* any sticker button, a hue change, a custom-sticker prompt whatever its
\* result, Export, and a pointer move while no command is in progress each
\* leave the display list, the redo stack and every command in them unchanged.
C22_OnlyDrawingEventsTouchDrawing ==
  /\ DrawingUntouched(mouseUp(St))
  /\ DrawingUntouched(mouseLeave(St))
  /\ DrawingUntouched(thinClick(St))
  /\ DrawingUntouched(thickClick(St))
  /\ \A i \in 1..Len(stickerButtons) : DrawingUntouched(stickerClick(St, i))
  /\ \A h \in ToolHueInputs : DrawingUntouched(colorSliderInput(St, h))
  /\ \A text \in PromptTexts : DrawingUntouched(customStickerClick(St, text))
  /\ DrawingUntouched(exportClick(St))
  /\ (currentCommand = Null
        => \A p \in DragMoveLocs : DrawingUntouched(mouseMove(St, p.x, p.y)))

\* A second command is being dragged over an earlier one: a release, a leave
\* or a tool click now finds a drawing it could damage.
C22_Witness ==
  /\ Len(displayList) = 2
  /\ isDrawing
  /\ currentCommand = displayList[2]
  /\ Len(cmds[currentCommand].points) = 2
  /\ mouseLeave(St).currentCommand = Null
  /\ mouseLeave(St).displayList = displayList

\* After handler result r the gesture is over and the drawing is the current
\* one: no command in progress, no command created, the display list and its
\* commands as in the current state.
EndedAsDrawn(r) ==
  /\ ~r.isDrawing
  /\ r.currentCommand = Null
  /\ r.nextId = nextId
  /\ r.displayList = displayList
  /\ \A id \in Range(displayList) : r.cmds[id] = cmds[id]

\* C23: in every reachable state with a command in progress, a leave ends the
\* gesture with the command in the display list as drawn so far; one or two
\* moves back over the canvas (the handler does not look at the buttons) and a
\* release after them extend nothing; and in every reachable state no handler
\* but a left press creates a command.
C23_LeaveEndsGesture ==
  /\ (currentCommand # Null
        => (/\ currentCommand \in Range(displayList)
            /\ EndedAsDrawn(mouseLeave(St))
            /\ \A p \in DragMoveLocs :
                 \E m \in {mouseMove(mouseLeave(St), p.x, p.y)} :
                   /\ EndedAsDrawn(m)
                   /\ EndedAsDrawn(mouseUp(m))
                   /\ \A q \in DragMoveLocs : EndedAsDrawn(mouseMove(m, q.x, q.y))))
  /\ \A r \in {mouseUp(St), mouseLeave(St), thinClick(St), thickClick(St),
               clearClick(St), undoClick(St), redoClick(St), exportClick(St)}
            \cup {mouseMove(St, p.x, p.y) : p \in DragMoveLocs}
            \cup {mouseDown(St, b, p.x, p.y) : b \in {1, 2}, p \in PressLocs}
            \cup {stickerClick(St, i) : i \in 1..Len(stickerButtons)}
            \cup {customStickerClick(St, text) : text \in PromptTexts}
            \cup {colorSliderInput(St, h) : h \in ToolHueInputs} :
       r.nextId = nextId

\* A stroke of two points is being dragged: the leave ends it, and the move
\* back finds nothing to extend.
C23_Witness ==
  /\ isDrawing
  /\ currentCommand # Null
  /\ Len(cmds[currentCommand].points) = 2
  /\ \E p \in DragMoveLocs :
       Len(mouseMove(mouseLeave(St), p.x, p.y).cmds[currentCommand].points) = 2

\* No preview exists and none is on the canvas.
Hidden(r) ==
  /\ r.previewCommand = NoPreview
  /\ \A i \in 1..Len(r.canvas) : r.canvas[i].src # Null

\* C24 as stated: in every reachable state a leave removes the preview, and a
\* click on Thin, Thick, a sticker button, Undo, Redo or Clear right after it
\* shows none.
C24_NoPreviewAfterLeave ==
  \E l \in {mouseLeave(St)} :
    /\ Hidden(l)
    /\ \A r \in {thinClick(l), thickClick(l), undoClick(l), redoClick(l),
                 clearClick(l)}
              \cup {stickerClick(l, i) : i \in 1..Len(stickerButtons)} :
         Hidden(r)

\* C24 as amended: in every reachable state a leave removes the preview; while
\* there is none, Undo, Redo and Clear show none; but a click on Thin, Thick
\* or a sticker button fires tool-moved with the last pointer position and,
\* with a 2d context, puts the preview of the selected tool back there.
C24_SelectionRestoresPreview ==
  /\ Hidden(mouseLeave(St))
  /\ (Hidden(St)
        => \A r \in {undoClick(St), redoClick(St), clearClick(St)} : Hidden(r))
  /\ \E l \in {mouseLeave(St)} :
       \A r \in {thinClick(l), thickClick(l)}
              \cup {stickerClick(l, i) : i \in 1..Len(stickerButtons)} :
         IF ctx
         THEN /\ r.previewCommand.kind =
                   (IF r.activeTool = "marker"
                    THEN "MarkerPreview" ELSE "StickerPreview")
              /\ Pt(r.previewCommand.x, r.previewCommand.y) = lastTool
              /\ Len(r.canvas) = Len(displayList) + 1
              /\ Last(r.canvas).src = Null
              /\ Last(r.canvas).path = <<Px(lastTool)>>
         ELSE Hidden(r)

\* The preview is on the canvas above a drawing: the leave removes it, an Undo
\* after the leave redraws without it and a Thin click brings it back.
C24_Witness ==
  /\ ctx
  /\ displayList # <<>>
  /\ ~Hidden(St)
  /\ Len(canvas) = Len(displayList) + 1
  /\ Hidden(undoClick(mouseLeave(St)))
  /\ undoClick(mouseLeave(St)).canvas # mouseLeave(St).canvas
  /\ ~Hidden(thinClick(mouseLeave(St)))

\* C25: at the end of every handler the preview command, when there is one,
\* is a marker preview exactly when the active tool is the marker and a
\* sticker preview exactly when it is a sticker, and it stands at the last
\* position passed to notifyToolMoved.
C25_PreviewMatchesTool ==
  previewCommand.kind # "none"
    => (/\ previewCommand.kind \in {"MarkerPreview", "StickerPreview"}
        /\ (previewCommand.kind = "MarkerPreview" <=> activeTool = "marker")
        /\ (previewCommand.kind = "StickerPreview" <=> activeTool = "sticker")
        /\ Pt(previewCommand.x, previewCommand.y) = lastTool)

\* The custom sticker was selected after the pointer had moved: its preview
\* stands at the pointer's position.
C25_Witness ==
  /\ previewCommand.kind = "StickerPreview"
  /\ activeTool = "sticker"
  /\ activeSticker = <<"cat">>
  /\ lastTool \in MoveLocs
  /\ Pt(previewCommand.x, previewCommand.y) = lastTool

\* The highlighted (bold, outlined) buttons of a state.
BoldStickers(r) == {i \in 1..Len(r.stickerButtons) : r.stickerButtons[i].bold}

HighlightCount(r) ==
  (IF r.markerBold.thin THEN 1 ELSE 0) + (IF r.markerBold.thick THEN 1 ELSE 0)
    + Cardinality(BoldStickers(r))

\* Exactly one button is highlighted and it is the active tool's.
OneHighlight(r) ==
  /\ HighlightCount(r) = 1
  /\ (r.activeTool = "marker"
        => (/\ r.markerBold.thin = (r.currentLineWidth = THIN_WIDTH)
            /\ r.markerBold.thick = (r.currentLineWidth = THICK_WIDTH)))
  /\ (r.activeTool = "sticker"
        => \A i \in BoldStickers(r) : r.stickerButtons[i].emoji = r.activeSticker)

\* C26 as stated: in every reachable state exactly one tool button is
\* highlighted, the active tool's, and so it is after a click on Thin, Thick
\* or any sticker button and after any custom-sticker prompt.
C26_ExactlyOneHighlighted ==
  /\ OneHighlight(St)
  /\ \A r \in {thinClick(St), thickClick(St)}
            \cup {stickerClick(St, i) : i \in 1..Len(stickerButtons)}
            \cup {customStickerClick(St, text) : text \in PromptTexts} :
       OneHighlight(r)

\* How often a signal was dispatched by the last handler.
Dispatched(log, name) == Cardinality({i \in 1..Len(log) : log[i] = name})

\* C27: the signals a handler dispatched before it ended are few and follow
\* one pattern: at most one tool-moved, at most two drawing-changed, nothing
\* but a single drawing-changed after a tool-moved, and no signal of any other
\* name; that is, tool-moved triggers at most one redraw and a redraw triggers
\* nothing.
C27_BoundedDispatch ==
  /\ \A i \in 1..Len(signals) : signals[i] \in {"tool-moved", "drawing-changed"}
  /\ Dispatched(signals, "tool-moved") <= 1
  /\ Dispatched(signals, "drawing-changed") <= 2
  /\ \A i \in 1..Len(signals) :
       signals[i] = "tool-moved"
         => (/\ Len(signals) <= i + 1
             /\ (Len(signals) = i + 1 => signals[i + 1] = "drawing-changed"))
  /\ \A i \in 1..Len(signals) - 1 :
       signals[i] = "drawing-changed" => signals[i + 1] = "tool-moved"

\* A move during a drag: the drag redraws, then tool-moved redraws once more.
C27_Witness ==
  /\ isDrawing
  /\ currentCommand # Null
  /\ signals = <<"drawing-changed", "tool-moved", "drawing-changed">>

====
